---- MODULE Spec2Model ----
(***************************************************************************)
(* A model of src/article_corpus.py: the ArticleCorpus object (vocabulary  *)
(* index over a tokenized corpus), its ingestion method add_data, the      *)
(* subsampling table built by _get_rejection_prob, the context-pair        *)
(* sampler get_random_context and the negative-sample generator            *)
(* sample_negative_words.                                                  *)
(*                                                                         *)
(* Python lists are sequences (0-based positions are shifted by one when a *)
(* sequence is indexed), Python dicts are functions, except word_to_freq   *)
(* whose iteration order is read by sample_negative_words: it is a         *)
(* sequence of <<key, value>> pairs in insertion order.                    *)
(***************************************************************************)
EXTENDS Integers, Sequences, FiniteSets, TLC

VARIABLES
    self,     \* the ArticleCorpus object: a record of its fields
    call,     \* the get_random_context call in progress, if any
    gen,      \* the generator object made by sample_negative_words
    result    \* what the most recent call returned (or raised)

vars == <<self, call, gen, result>>

(***************************************************************************)
(* Bounds of the model and the inputs the operations draw from.            *)
(***************************************************************************)
MaxDocs == 3
MaxWindow == 2
MaxNegative == 2
RecursionLimit == 2
MaxFreq == 12

\* The documents a batch is made of: an empty document, one word repeated
\* often enough for subsampling (two of them pass the threshold), the first
\* document of the worked example, and a document holding the token "UNK".
Docs ==
    { << >>,
      <<"a", "a", "a", "a", "a", "a">>,
      <<"a", "b", "a", "c">>,
      <<"UNK", "a">> }

RECURSIVE SeqsUpTo(_, _)
SeqsUpTo(S, n) ==
    IF n = 0 THEN { << >> }
    ELSE LET shorter == SeqsUpTo(S, n - 1)
         IN  shorter \cup { Append(s, x) : s \in shorter, x \in S }

\* A valid batch is a non-empty list of lists (the asserts of add_data).
Batches == { b \in SeqsUpTo(Docs, MaxDocs) : Len(b) >= 1 }

Windows == 0..MaxWindow
NumNegatives == 0..MaxNegative

(***************************************************************************)
(* Python list and dict primitives.                                        *)
(***************************************************************************)
InList(x, list) == \E i \in 1..Len(list) : list[i] = x

\* list[lo:hi] for 0 <= lo, 0 <= hi (an empty list when hi <= lo).
Slice(list, lo, hi) ==
    LET h == IF hi > Len(list) THEN Len(list) ELSE hi
    IN  IF lo >= h THEN << >> ELSE [i \in 1..(h - lo) |-> list[lo + i]]

Max(a, b) == IF a >= b THEN a ELSE b
Min(a, b) == IF a <= b THEN a ELSE b

EmptyDict == << >>
DictPut(d, k, v) == [x \in (DOMAIN d) \cup {k} |-> IF x = k THEN v ELSE d[x]]

\* The ordered dict word_to_freq.
FreqGet(wf, w) == wf[CHOOSE i \in 1..Len(wf) : wf[i][1] = w][2]
FreqNew(wf, w) == Append(wf, <<w, 1>>)
FreqInc(wf, w) == [i \in 1..Len(wf) |-> IF wf[i][1] = w THEN <<w, wf[i][2] + 1>> ELSE wf[i]]

(***************************************************************************)
(* __init__, lines 35-43: the fields before any data is added.             *)
(***************************************************************************)
NewObject ==
    [ corpus |-> << >>,          \* None: falsy, like the empty list
      vocab |-> << >>,
      corpus_size |-> 0,
      vocab_size |-> 0,
      word_to_idx |-> EmptyDict,
      idx_to_word |-> EmptyDict,
      word_to_freq |-> << >>,
      word_to_rejection_prob |-> EmptyDict ]

(***************************************************************************)
(* _get_rejection_prob, lines 142-147.                                     *)
(*                                                                         *)
(* A probability 1 - sqrt(num/den) is kept exactly, as the ratio under the *)
(* root: [num |-> n, den |-> d] with n >= 0 and d > 0 stands for           *)
(* 1 - sqrt(n/d). Comparisons of two such values are comparisons of the    *)
(* ratios, reversed, since 1 - sqrt(x) strictly decreases in x.            *)
(***************************************************************************)
threshold == 10

OneMinusSqrt(n, d) == [num |-> n, den |-> d]
ProbZero == OneMinusSqrt(1, 1)
ProbLess(p, q) == p.num * q.den > q.num * p.den

\* max(0, x): x when it is greater than 0, otherwise 0.
MaxZero(p) == IF ProbLess(ProbZero, p) THEN p ELSE ProbZero

\* RejectionProb with the ratio upside down: sqrt(word_freq / threshold).
RejectionProb_InvertedRatio(word_freq) == MaxZero(OneMinusSqrt(word_freq, threshold))

\* Line 146.
RejectionProb(word_freq) == MaxZero(OneMinusSqrt(threshold, word_freq))

\* Lines 143-147, for i in range(n, vocab_size).
RECURSIVE RejectionLoop(_, _)
RejectionLoop(s, i) ==
    IF i >= s.vocab_size THEN s
    ELSE LET word == s.vocab[i + 1]
             rp == RejectionProb(FreqGet(s.word_to_freq, word))
         IN  RejectionLoop([s EXCEPT !.word_to_rejection_prob = DictPut(@, word, rp)], i + 1)

get_rejection_prob(s) == RejectionLoop(s, 0)

(***************************************************************************)
(* add_data, lines 116-133.                                                *)
(***************************************************************************)
\* AddWord with vocab_size incremented before idx_to_word is written.
AddWord_IndexAfterIncrement(s, word) ==
    IF ~InList(word, s.vocab)
    THEN [s EXCEPT !.corpus_size = @ + 1,
                   !.vocab = Append(@, word),
                   !.word_to_idx = DictPut(@, word, s.vocab_size),
                   !.idx_to_word = DictPut(@, s.vocab_size + 1, word),
                   !.word_to_freq = FreqNew(@, word),
                   !.vocab_size = @ + 1]
    ELSE [s EXCEPT !.corpus_size = @ + 1,
                   !.word_to_freq = FreqInc(@, word)]

\* Lines 118-126: one word of one article.
AddWord(s, word) ==
    IF ~InList(word, s.vocab)
    THEN [s EXCEPT !.corpus_size = @ + 1,
                   !.vocab = Append(@, word),
                   !.word_to_idx = DictPut(@, word, s.vocab_size),
                   !.idx_to_word = DictPut(@, s.vocab_size, word),
                   !.word_to_freq = FreqNew(@, word),
                   !.vocab_size = @ + 1]
    ELSE [s EXCEPT !.corpus_size = @ + 1,
                   !.word_to_freq = FreqInc(@, word)]

RECURSIVE AddArticle(_, _)
AddArticle(s, article) ==
    IF article = << >> THEN s
    ELSE AddArticle(AddWord(s, Head(article)), Tail(article))

RECURSIVE AddArticles(_, _)
AddArticles(s, data) ==
    IF data = << >> THEN s
    ELSE AddArticles(AddArticle(s, Head(data)), Tail(data))

\* AddUNK without the test of line 128: the sentinel is added by every call.
AddUNK_Always(s) ==
    [s EXCEPT !.vocab = Append(@, "UNK"),
              !.word_to_idx = DictPut(@, "UNK", s.vocab_size),
              !.idx_to_word = DictPut(@, s.vocab_size, "UNK"),
              !.word_to_freq = FreqNew(@, "UNK"),
              !.vocab_size = @ + 1]

\* Lines 128-133: the sentinel, added when the list vocab does not hold it.
AddUNK(s) ==
    IF ~InList("UNK", s.vocab)
    THEN [s EXCEPT !.vocab = Append(@, "UNK"),
                   !.word_to_idx = DictPut(@, "UNK", s.vocab_size),
                   !.idx_to_word = DictPut(@, s.vocab_size, "UNK"),
                   !.word_to_freq = FreqNew(@, "UNK"),
                   !.vocab_size = @ + 1]
    ELSE s

\* Lines 111-114: the first batch BECOMES the corpus list (the same object);
\* a later batch is appended to that object.
StoreData(s, data) ==
    IF s.corpus = << >> THEN [s EXCEPT !.corpus = data]
    ELSE [s EXCEPT !.corpus = @ \o data]

\* add_data that ends by recomputing the rejection probabilities.
add_data_Recomputing(s, data, same_object) ==
    LET stored == StoreData(s, data)
        looped == IF same_object THEN stored.corpus ELSE data
    IN  get_rejection_prob(AddUNK(AddArticles(stored, looped)))

\* add_data(data) for a list of lists. same_object: data is the very list
\* object self._corpus refers to, so that after the extend of line 114 the
\* loop of line 116 runs over the extended list.
add_data(s, data, same_object) ==
    LET stored == StoreData(s, data)
        looped == IF same_object THEN stored.corpus ELSE data
    IN  AddUNK(AddArticles(stored, looped))

(***************************************************************************)
(* get_random_context, lines 158-181.                                      *)
(***************************************************************************)
\* random.random() is in [0, 1): some draw is >= p iff p < 1, and some draw
\* is < p iff p > 0.
CanKeep(p) == p.num > 0
CanDrop(p) == ProbLess(ProbZero, p)

\* Line 168 raises KeyError on a word that has no rejection probability.
LooksUpAll(s, doc) == \A i \in 1..Len(doc) : doc[i] \in DOMAIN s.word_to_rejection_prob

\* keep[i]: whether random.random() >= rejection_prob came out true for
\* the i-th word. The masks the draws can produce for a document.
KeepMasks(s, doc) ==
    { keep \in [1..Len(doc) -> BOOLEAN] :
        \A i \in 1..Len(doc) :
            LET p == s.word_to_rejection_prob[doc[i]]
            IN  IF keep[i] THEN CanKeep(p) ELSE CanDrop(p) }

\* Lines 165-170: the words whose draw came out true and whose frequency
\* is at least 1.
RECURSIVE FilterDoc(_, _, _, _)
FilterDoc(s, doc, keep, i) ==
    IF i > Len(doc) THEN << >>
    ELSE LET rest == FilterDoc(s, doc, keep, i + 1)
         IN  IF keep[i] /\ FreqGet(s.word_to_freq, doc[i]) >= 1
             THEN <<doc[i]>> \o rest
             ELSE rest

\* Lines 174-176: the context before the center word is removed from it.
ContextWindow(doc_text, c_idx, window) ==
    LET left == Slice(doc_text, Max(0, c_idx - window), c_idx)
    IN  IF c_idx + 1 < Len(doc_text)
        THEN left \o Slice(doc_text, c_idx + 1, Min(c_idx + window, Len(doc_text)))
        ELSE left

\* Line 177 left out: the window is returned as it is.
RemoveWord_KeepAll(list, word) == list

\* Line 177.
RECURSIVE RemoveWord(_, _)
RemoveWord(list, word) ==
    IF list = << >> THEN << >>
    ELSE IF Head(list) = word THEN RemoveWord(Tail(list), word)
         ELSE <<Head(list)>> \o RemoveWord(Tail(list), word)

\* What one pass of the loop body, lines 162-170, can leave in doc_text:
\* a document picked by random.randint(0, n_doc - 1), filtered.
FilteredTexts(s) ==
    UNION { { FilterDoc(s, s.corpus[doc_id + 1], keep, 1) :
                keep \in KeepMasks(s, s.corpus[doc_id + 1]) } :
            doc_id \in { d \in 0..(Len(s.corpus) - 1) : LooksUpAll(s, s.corpus[d + 1]) } }

(***************************************************************************)
(* sample_negative_words, lines 190-202.                                   *)
(***************************************************************************)
\* Lines 190-195 with the sentinel left out of the loop: its position keeps
\* the zero of np.zeros.
SamplingProbs_WithoutUNK(s) ==
    [i \in 1..s.vocab_size |->
        IF i <= Len(s.word_to_freq) /\ s.word_to_freq[i][1] # "UNK"
        THEN s.word_to_freq[i][2] ELSE 0]

\* Lines 190-195. The weight v ** 0.75 / normalizing_factor of a position
\* is kept as the frequency v it is computed from (0 for a position the
\* loop never writes): it is positive exactly when v is, which is all a
\* multinomial draw depends on here.
SamplingProbs(s) ==
    [i \in 1..s.vocab_size |->
        IF i <= Len(s.word_to_freq) THEN s.word_to_freq[i][2] ELSE 0]

\* Line 193: the values v whose v ** 0.75 are summed into
\* normalizing_factor, in the order of the loop.
NormalizingTerms(s) == [i \in 1..Len(s.word_to_freq) |-> s.word_to_freq[i][2]]

RECURSIVE SumTo(_, _)
SumTo(f, n) == IF n = 0 THEN 0 ELSE f[n] + SumTo(f, n - 1)

\* Line 198: the count vectors np.random.multinomial(n, pvals) can return.
Multinomial(n, pvals) ==
    { sample \in [1..Len(pvals) -> 0..n] :
        /\ SumTo(sample, Len(pvals)) = n
        /\ \A i \in 1..Len(pvals) : sample[i] > 0 => pvals[i] > 0 }

\* Lines 199-201: index idx (0-based) repeated count times, idx ascending.
RECURSIVE Repeat(_, _)
Repeat(x, n) == IF n = 0 THEN << >> ELSE <<x>> \o Repeat(x, n - 1)

\* Lines 199-201 counting positions from 1.
RECURSIVE Expand_OneBased(_, _)
Expand_OneBased(sample, i) ==
    IF i > Len(sample) THEN << >>
    ELSE Repeat(i, sample[i]) \o Expand_OneBased(sample, i + 1)

RECURSIVE Expand(_, _)
Expand(sample, i) ==
    IF i > Len(sample) THEN << >>
    ELSE Repeat(i - 1, sample[i]) \o Expand(sample, i + 1)

(***************************************************************************)
(* The state machine.                                                      *)
(***************************************************************************)
NoResult ==
    [ op |-> "none", status |-> "none", center |-> "", context |-> << >>,
      doc_text |-> << >>, c_idx |-> 0, window |-> 0, negatives |-> << >> ]

Returned(op) == [NoResult EXCEPT !.op = op, !.status = "returned"]
Raised(op, error) == [NoResult EXCEPT !.op = op, !.status = error]

NotCalled == [pc |-> "new", window |-> 0, depth |-> 0]
Idle == [pc |-> "idle", window |-> 0, depth |-> 0]
\* The generator: not made, "created" (no line run yet), or suspended at
\* the yield of line 202 after its first or after a later production.
NoGen == [st |-> "none", num_negative |-> 0, sampling_probs |-> << >>]

Init ==
    /\ self = NewObject
    /\ call = NotCalled
    /\ gen = NoGen
    /\ result = NoResult

\* ArticleCorpus(corpus), lines 35-46.
Construct(corpus) ==
    /\ call.pc = "new"
    /\ self' = get_rejection_prob(add_data(NewObject, corpus, TRUE))
    /\ call' = Idle
    /\ result' = Returned("__init__")
    /\ UNCHANGED gen

\* add_data(data) with a list of the caller's own.
Ingest(data) ==
    /\ call.pc = "idle"
    /\ Len(self.corpus) + Len(data) <= MaxDocs
    /\ self' = add_data(self, data, FALSE)
    /\ result' = Returned("add_data")
    /\ UNCHANGED <<call, gen>>

\* add_data(data) with the list the object holds as its corpus: the list
\* given to the constructor, or the one the corpus property returns.
IngestCorpus ==
    /\ call.pc = "idle"
    /\ 2 * Len(self.corpus) <= MaxDocs
    /\ self' = add_data(self, self.corpus, TRUE)
    /\ result' = Returned("add_data")
    /\ UNCHANGED <<call, gen>>

\* _get_rejection_prob() called again by the owner of the object.
Recompute ==
    /\ call.pc = "idle"
    /\ self' = get_rejection_prob(self)
    /\ result' = Returned("_get_rejection_prob")
    /\ UNCHANGED <<call, gen>>

\* get_random_context(window) is entered.
CallContext(window) ==
    /\ call.pc = "idle"
    /\ call' = [pc |-> "sampling", window |-> window, depth |-> 1]
    /\ result' = [NoResult EXCEPT !.op = "get_random_context", !.status = "pending"]
    /\ UNCHANGED <<self, gen>>

\* Line 168 on a document with a word that has no rejection probability.
SampleKeyError ==
    /\ call.pc = "sampling"
    /\ \E doc_id \in 0..(Len(self.corpus) - 1) : ~LooksUpAll(self, self.corpus[doc_id + 1])
    /\ call' = Idle
    /\ result' = Raised("get_random_context", "KeyError")
    /\ UNCHANGED <<self, gen>>

\* Line 161: fewer than two words survived, the loop picks again.
SampleAgain ==
    /\ call.pc = "sampling"
    /\ \E doc_text \in FilteredTexts(self) : Len(doc_text) < 2
    /\ UNCHANGED vars

\* Lines 172-179: a center is drawn and the context is not empty.
SampleReturn ==
    /\ call.pc = "sampling"
    /\ \E doc_text \in FilteredTexts(self) :
         /\ Len(doc_text) >= 2
         /\ \E c_idx \in 0..(Len(doc_text) - 1) :
              LET center_word == doc_text[c_idx + 1]
                  context == RemoveWord(ContextWindow(doc_text, c_idx, call.window), center_word)
              IN  /\ Len(context) > 0
                  /\ result' = [Returned("get_random_context") EXCEPT
                                   !.center = center_word, !.context = context,
                                   !.doc_text = doc_text, !.c_idx = c_idx,
                                   !.window = call.window]
    /\ call' = Idle
    /\ UNCHANGED <<self, gen>>

\* Whether one pass can end with an empty context (line 180).
EmptyContextPossible ==
    \E doc_text \in FilteredTexts(self) :
        /\ Len(doc_text) >= 2
        /\ \E c_idx \in 0..(Len(doc_text) - 1) :
             RemoveWord(ContextWindow(doc_text, c_idx, call.window), doc_text[c_idx + 1]) = << >>

\* Line 181: the method calls itself.
SampleRecurse ==
    /\ call.pc = "sampling"
    /\ EmptyContextPossible
    /\ call.depth < RecursionLimit
    /\ call' = [call EXCEPT !.depth = @ + 1]
    /\ UNCHANGED <<self, gen, result>>

\* Line 181 when the interpreter's recursion limit is reached.
SampleRecursionError ==
    /\ call.pc = "sampling"
    /\ EmptyContextPossible
    /\ call.depth >= RecursionLimit
    /\ call' = Idle
    /\ result' = Raised("get_random_context", "RecursionError")
    /\ UNCHANGED <<self, gen>>

\* sample_negative_words(num_negative): a generator object, no line run yet.
NewGenerator(num_negative) ==
    /\ call.pc = "idle"
    /\ gen' = [st |-> "created", num_negative |-> num_negative, sampling_probs |-> << >>]
    /\ result' = Returned("sample_negative_words")
    /\ UNCHANGED <<self, call>>

\* The first next(): lines 190-202.
FirstNext ==
    /\ call.pc = "idle"
    /\ gen.st = "created"
    /\ LET sampling_probs == SamplingProbs(self)
       IN  /\ gen' = [gen EXCEPT !.st = "yielded", !.sampling_probs = sampling_probs]
           /\ \E sample \in Multinomial(gen.num_negative, sampling_probs) :
                result' = [Returned("next") EXCEPT !.negatives = Expand(sample, 1)]
    /\ UNCHANGED <<self, call>>

\* A later next() that runs lines 190-195 again before it draws.
LaterNext_Recomputing ==
    /\ call.pc = "idle"
    /\ gen.st \in {"yielded", "yielded_again"}
    /\ LET sampling_probs == SamplingProbs(self)
       IN  /\ gen' = [gen EXCEPT !.st = "yielded_again", !.sampling_probs = sampling_probs]
           /\ \E sample \in Multinomial(gen.num_negative, sampling_probs) :
                result' = [Returned("next") EXCEPT !.negatives = Expand(sample, 1)]
    /\ UNCHANGED <<self, call>>

\* A later next(): lines 196-202, with the sampling_probs of the first.
LaterNext ==
    /\ call.pc = "idle"
    /\ gen.st \in {"yielded", "yielded_again"}
    /\ gen' = [gen EXCEPT !.st = "yielded_again"]
    /\ \E sample \in Multinomial(gen.num_negative, gen.sampling_probs) :
         result' = [Returned("next") EXCEPT !.negatives = Expand(sample, 1)]
    /\ UNCHANGED <<self, call>>

(***************************************************************************)
(* Arguments of any shape: what the asserts of lines 32-33 and 102-109     *)
(* let through and what the loop of lines 116-126 does with it.            *)
(***************************************************************************)
\* An element of a list given as corpus or data: a list of words, a str
\* (words: its characters, which is what iterating over it yields), or an
\* int (not iterable).
ListElem(doc) == [type |-> "list", words |-> doc]
StrElem(chars) == [type |-> "str", words |-> chars]
IntElem == [type |-> "int", words |-> << >>]

\* An argument: a list, a tuple, or a DataFrame whose columns all hold the
\* texts in items. text_col "" stands for the default None.
PyList(items) == [type |-> "list", items |-> items, columns |-> {}]
PyTuple(items) == [type |-> "tuple", items |-> items, columns |-> {}]
DataFrame(columns, texts) == [type |-> "DataFrame", items |-> texts, columns |-> columns]

Elements ==
    { ListElem(doc) : doc \in Docs } \cup { StrElem(<<"b", "d">>), IntElem }

Texts == { StrElem(<< >>), StrElem(<<" ", "a", " ", " ", "b", "c", " ">>), StrElem(<<"U", "N", "K">>) }

TextCols == { "", "text", "title" }

Arguments ==
    { PyList(items) : items \in SeqsUpTo(Elements, MaxDocs) }
    \cup { PyTuple(<<ListElem(<<"a", "b", "a", "c">>)>>) }
    \cup { DataFrame({"text"}, texts) : texts \in SeqsUpTo(Texts, MaxDocs) }

\* str.strip() and str.split() of line 106, on a text given as characters.
RECURSIVE LStrip(_)
LStrip(text) ==
    IF text # << >> /\ Head(text) = " " THEN LStrip(Tail(text)) ELSE text

RECURSIVE RStrip(_)
RStrip(text) ==
    IF text # << >> /\ text[Len(text)] = " "
    THEN RStrip(SubSeq(text, 1, Len(text) - 1))
    ELSE text

Strip(text) == RStrip(LStrip(text))

RECURSIVE SplitFrom(_, _, _)
SplitFrom(text, i, word) ==
    LET done == IF word = "" THEN << >> ELSE <<word>>
    IN  IF i > Len(text) THEN done
        ELSE IF text[i] = " " THEN done \o SplitFrom(text, i + 1, "")
        ELSE SplitFrom(text, i + 1, word \o text[i])

Split(text) == SplitFrom(text, 1, "")

\* Lines 105-106: the list of lists made of the column of a DataFrame.
TextData(data) ==
    PyList([i \in 1..Len(data.items) |-> ListElem(Split(Strip(data.items[i].words)))])

\* The two asserts on a list of lists, lines 32-33 and 108-109: the error
\* they end with, "none" when both pass. [][0] of an empty list raises
\* IndexError before the second assert compares anything.
ListCheck(data) ==
    IF data.type # "list" THEN "AssertionError"
    ELSE IF data.items = << >> THEN "IndexError"
    ELSE IF data.items[1].type # "list" THEN "AssertionError"
    ELSE "none"

\* Lines 102-104.
TextColCheck(data, text_col) ==
    IF data.type = "DataFrame" /\ (text_col = "" \/ text_col \notin data.columns)
    THEN "AssertionError"
    ELSE "none"

\* What data is at line 108.
AsList(data) == IF data.type = "DataFrame" THEN TextData(data) ELSE data

\* An int among the documents, as the corpus list holds it.
NotIterable == <<"<int>">>

\* The elements as line 112 or 114 puts them into the corpus list.
StoredItems(items) ==
    [i \in 1..Len(items) |->
        IF items[i].type = "int" THEN NotIterable ELSE items[i].words]

\* Lines 116-126 over elements of any type: a str is iterated character by
\* character, an int raises TypeError at line 117 and ends the call with
\* the elements before it counted.
RECURSIVE AddElements(_, _)
AddElements(s, items) ==
    IF items = << >> THEN [self |-> s, error |-> "none"]
    ELSE IF Head(items).type = "int" THEN [self |-> s, error |-> "TypeError"]
    ELSE AddElements(AddArticle(s, Head(items).words), Tail(items))

\* add_data(data, text_col), lines 102-133, for an argument of any shape
\* that is not the corpus list itself: the object it leaves and the error
\* it raises.
AddData(s, data, text_col) ==
    IF TextColCheck(data, text_col) # "none"
    THEN [self |-> s, error |-> TextColCheck(data, text_col)]
    ELSE IF ListCheck(AsList(data)) # "none"
    THEN [self |-> s, error |-> ListCheck(AsList(data))]
    ELSE LET items == AsList(data).items
             looped == AddElements(StoreData(s, StoredItems(items)), items)
         IN  IF looped.error # "none" THEN looped
             ELSE [self |-> AddUNK(looped.self), error |-> "none"]

\* After an add_data that raised TypeError the corpus list holds an element
\* that is no document: the object is not followed any further.
Stopped == [pc |-> "stopped", window |-> 0, depth |-> 0]

\* ArticleCorpus(corpus) with an argument of any shape. When __init__
\* raises, no object comes into being.
ConstructAny(corpus) ==
    /\ call.pc = "new"
    /\ LET built == AddData(NewObject, corpus, "")
       IN  IF ListCheck(corpus) # "none"
           THEN /\ result' = Raised("__init__", ListCheck(corpus))
                /\ UNCHANGED <<self, call>>
           ELSE IF built.error # "none"
           THEN /\ result' = Raised("__init__", built.error)
                /\ UNCHANGED <<self, call>>
           ELSE /\ self' = get_rejection_prob(built.self)
                /\ call' = Idle
                /\ result' = Returned("__init__")
    /\ UNCHANGED gen

\* add_data(data, text_col) with an argument of any shape.
IngestAny(data, text_col) ==
    /\ call.pc = "idle"
    /\ Len(self.corpus) + Len(data.items) <= MaxDocs
    /\ LET added == AddData(self, data, text_col)
       IN  /\ self' = added.self
           /\ IF added.error = "none"
              THEN /\ result' = Returned("add_data")
                   /\ UNCHANGED call
              ELSE /\ result' = Raised("add_data", added.error)
                   /\ call' = IF added.error = "TypeError" THEN Stopped ELSE call
    /\ UNCHANGED gen

\* Construction and ingestion with arguments of any shape.
InputNext ==
    \/ \E corpus \in Arguments : ConstructAny(corpus)
    \/ \E data \in Arguments, text_col \in TextCols : IngestAny(data, text_col)

\* The index: construction, ingestion, the subsampling table.
IndexNext ==
    \/ \E corpus \in Batches : Construct(corpus)
    \/ \E data \in Batches : Ingest(data)
    \/ IngestCorpus
    \/ Recompute

\* get_random_context.
ContextNext ==
    \/ \E window \in Windows : CallContext(window)
    \/ SampleKeyError
    \/ SampleAgain
    \/ SampleReturn
    \/ SampleRecurse
    \/ SampleRecursionError

\* sample_negative_words and the generator it makes.
NegativeNext ==
    \/ \E num_negative \in NumNegatives : NewGenerator(num_negative)
    \/ FirstNext
    \/ LaterNext

Next == IndexNext \/ ContextNext \/ NegativeNext \/ InputNext

Spec == Init /\ [][Next]_vars

\* The context sampler and the negative sampler do not read or write each
\* other's state (call, gen), and the negative sampler does not read the
\* subsampling table: each is also checked alone over the index.
SpecIndex == Init /\ [][IndexNext]_vars
SpecContext == Init /\ [][IndexNext \/ ContextNext]_vars

NegativeSpecNext ==
    \/ \E corpus \in Batches : Construct(corpus)
    \/ \E data \in Batches : Ingest(data)
    \/ IngestCorpus
    \/ NegativeNext

SpecNegative == Init /\ [][NegativeSpecNext]_vars

\* The index built from one document in which "a" occurs f1 times and "b"
\* f2 times: the frequencies the subsampling table is computed from, on
\* both sides of the threshold.
FrequentBatches ==
    { << Repeat("a", f1) \o Repeat("b", f2) >> : f1 \in 1..MaxFreq, f2 \in 1..MaxFreq }

FrequentNext ==
    \/ \E corpus \in FrequentBatches : Construct(corpus)
    \/ Recompute

SpecFrequent == Init /\ [][FrequentNext]_vars

\* Construction and ingestion with no call of _get_rejection_prob by the
\* owner, and the context sampler over it.
StaleNext ==
    \/ \E corpus \in Batches : Construct(corpus)
    \/ \E data \in Batches : Ingest(data)
    \/ IngestCorpus
    \/ ContextNext

SpecStale == Init /\ [][StaleNext]_vars

\* The context sampler under fair random draws: a pass that can return a
\* pair again and again does return one at some point.
SpecFair == Init /\ [][IndexNext \/ ContextNext]_vars /\ SF_vars(SampleReturn)

\* The index under arguments of any shape.
SpecInput == Init /\ [][InputNext \/ Recompute]_vars

(***************************************************************************)
(* Properties.                                                             *)
(***************************************************************************)
Constructed == call.pc # "new"
VocabSet == { self.vocab[i] : i \in 1..Len(self.vocab) }

RECURSIVE Flatten(_)
Flatten(docs) == IF docs = << >> THEN << >> ELSE Head(docs) \o Flatten(Tail(docs))

Tokens == Flatten(self.corpus)
TokenSet == { Tokens[i] : i \in 1..Len(Tokens) }
CountIn(list, x) == Cardinality({ i \in 1..Len(list) : list[i] = x })
FirstPos(list, x) == CHOOSE i \in 1..Len(list) : list[i] = x /\ \A j \in 1..(i - 1) : list[j] # x
Frequency(w) == FreqGet(self.word_to_freq, w)

ContextReturned == result.op = "get_random_context" /\ result.status = "returned"

\* C1: a get_random_context call that returns gives a context of at least
\* one word, none of which is the center word.
C1_ContextNonEmptyWithoutCenter ==
    ContextReturned =>
        /\ Len(result.context) >= 1
        /\ \A i \in 1..Len(result.context) : result.context[i] # result.center

\* A returned pair whose window held the center word again, at another
\* position, before line 177 removed it.
C1_Witness ==
    /\ ContextReturned
    /\ InList(result.center,
              ContextWindow(result.doc_text, result.c_idx, result.window))

\* C2: every production of the generator, the first and any later one, is
\* a list of exactly num_negative indices, each in [0, vocab_size), in
\* non-decreasing order.
C2_NegativesCountRangeOrder ==
    result.op = "next" =>
        /\ Len(result.negatives) = gen.num_negative
        /\ \A i \in 1..Len(result.negatives) :
             result.negatives[i] \in 0..(self.vocab_size - 1)
        /\ \A i \in 1..Len(result.negatives) : \A j \in i..Len(result.negatives) :
             result.negatives[i] <= result.negatives[j]

\* A later production of a generator, after the vocabulary grew, with two
\* different indices drawn.
C2_Witness ==
    /\ result.op = "next"
    /\ gen.st = "yielded_again"
    /\ self.vocab_size > Len(gen.sampling_probs)
    /\ Len(result.negatives) = 2
    /\ result.negatives[1] < result.negatives[2]

\* C3: once constructed, "UNK" is in vocab exactly once and its frequency
\* is exactly 1, whatever was ingested.
C3_UnkOnceWithFrequencyOne ==
    Constructed =>
        /\ CountIn(self.vocab, "UNK") = 1
        /\ Frequency("UNK") = 1

\* C4: corpus_size is the sum of the lengths of the documents in corpus,
\* also after a batch that is the corpus list itself.
C4_CorpusSizeIsSumOfLengths == self.corpus_size = Len(Tokens)

\* C5: every word of every document is in vocab, and its frequency is the
\* number of its occurrences in the documents.
C5_FrequencyIsOccurrenceCount ==
    \A w \in TokenSet :
        /\ InList(w, self.vocab)
        /\ Frequency(w) = CountIn(Tokens, w)

\* C6: word_to_idx and idx_to_word are inverses of each other, and the
\* words of both are exactly the words of vocab.
C6_MappingsAreInverse ==
    /\ DOMAIN self.word_to_idx = VocabSet
    /\ { self.idx_to_word[i] : i \in DOMAIN self.idx_to_word } = VocabSet
    /\ \A w \in DOMAIN self.word_to_idx :
         /\ self.word_to_idx[w] \in DOMAIN self.idx_to_word
         /\ self.idx_to_word[self.word_to_idx[w]] = w
    /\ \A i \in DOMAIN self.idx_to_word :
         /\ self.idx_to_word[i] \in DOMAIN self.word_to_idx
         /\ self.word_to_idx[self.idx_to_word[i]] = i

\* After a later ingestion: four words, "UNK" not the last of them.
C6_Witness ==
    /\ result.op = "add_data"
    /\ self.vocab_size = 4
    /\ "UNK" \in DOMAIN self.word_to_idx
    /\ self.word_to_idx["UNK"] < self.vocab_size - 1
    /\ self.idx_to_word[self.vocab_size - 1] # "UNK"

\* The state part of C7: dense indices, one per word, in the order of the
\* first occurrences in the documents (for the words other than the
\* sentinel, which is first seen when line 129 appends it).
C7_IndicesDense ==
    /\ DOMAIN self.idx_to_word = 0..(self.vocab_size - 1)
    /\ { self.word_to_idx[w] : w \in DOMAIN self.word_to_idx } = 0..(self.vocab_size - 1)
    /\ \A v, w \in DOMAIN self.word_to_idx :
         self.word_to_idx[v] = self.word_to_idx[w] => v = w
    /\ self.vocab_size = Cardinality(VocabSet)
    /\ Len(self.vocab) = self.vocab_size
    /\ \A v, w \in (TokenSet \cap DOMAIN self.word_to_idx) \ {"UNK"} :
         FirstPos(Tokens, v) < FirstPos(Tokens, w) => self.word_to_idx[v] < self.word_to_idx[w]

\* The step part of C7: a word that enters the vocabulary gets an index
\* above every index given before, and those stay as they are.
C7_NewWordsAboveOld ==
    \A w \in (DOMAIN self.word_to_idx') \ (DOMAIN self.word_to_idx) :
        \A v \in DOMAIN self.word_to_idx :
            /\ v \in DOMAIN self.word_to_idx'
            /\ self.word_to_idx'[v] = self.word_to_idx[v]
            /\ self.word_to_idx'[v] < self.word_to_idx'[w]

\* C7: the assigned indices are exactly 0..vocab_size-1, no two words share
\* one, vocab_size is the number of distinct words, and indices are handed
\* out in first-seen order: a word first seen later gets a larger index.
C7_IndicesDenseInFirstSeenOrder == []C7_IndicesDense /\ [][C7_NewWordsAboveOld]_vars

\* Words first seen in three different calls, the sentinel between them.
C7_Witness == self.vocab = <<"a", "UNK", "b", "c">> /\ Len(self.corpus) = 3

\* s[lo..hi], both ends included, positions counted from 0.
InclusiveSlice(s, lo, hi) ==
    IF hi < lo THEN << >> ELSE [i \in 1..(hi - lo + 1) |-> s[lo + i]]

\* C8: the context before the center word is removed from it is
\* s[max(0, c - window) .. c - 1] followed by
\* s[c + 1 .. min(c + window, len(s) - 1)].
C8_WindowOnBothSides ==
    ContextReturned =>
        ContextWindow(result.doc_text, result.c_idx, result.window)
          = InclusiveSlice(result.doc_text,
                           Max(0, result.c_idx - result.window), result.c_idx - 1)
            \o InclusiveSlice(result.doc_text, result.c_idx + 1,
                              Min(result.c_idx + result.window, Len(result.doc_text) - 1))

\* The last call was a computation of the table: the constructor's, or an
\* explicit one.
JustComputed == result.op \in {"__init__", "_get_rejection_prob"}

\* The state part of C9: right after a computation the table has exactly
\* the words of vocab, each with the value of its frequency.
C9_TableOfLastComputation ==
    JustComputed =>
        /\ DOMAIN self.word_to_rejection_prob = VocabSet
        /\ \A w \in DOMAIN self.word_to_rejection_prob :
             self.word_to_rejection_prob[w] = RejectionProb(Frequency(w))

\* The step part of C9: a call of add_data (the only step of a constructed
\* object that changes corpus) changes neither the words nor the values.
C9_IngestKeepsTable ==
    (call.pc = "idle" /\ self'.corpus # self.corpus) =>
        self'.word_to_rejection_prob = self.word_to_rejection_prob

\* C9: add_data leaves word_to_rejection_prob unchanged: after the
\* constructor its words are exactly those of vocab, and after any later
\* ingestion it is still the table of the last computation, with the words
\* and the frequencies of that time.
C9_IngestLeavesRejectionProb == []C9_TableOfLastComputation /\ [][C9_IngestKeepsTable]_vars

\* After an ingestion: a word without an entry, and a word whose entry is
\* that of its earlier frequency.
C9_Witness ==
    /\ result.op = "add_data"
    /\ \E w \in VocabSet : w \notin DOMAIN self.word_to_rejection_prob
    /\ \E w \in DOMAIN self.word_to_rejection_prob :
         self.word_to_rejection_prob[w] # RejectionProb(Frequency(w))

\* 0 <= 1 - sqrt(num/den) < 1.
InUnitInterval(p) == p.den > 0 /\ p.num > 0 /\ p.num <= p.den

\* C10: after a computation, a word with frequency <= threshold has
\* rejection probability exactly 0, of two words with frequencies above the
\* threshold the more frequent has the strictly greater probability, and
\* every probability is in [0, 1).
C10_RejectionProbZeroThenIncreasing ==
    JustComputed =>
        \A w \in VocabSet :
            /\ w \in DOMAIN self.word_to_rejection_prob
            /\ InUnitInterval(self.word_to_rejection_prob[w])
            /\ Frequency(w) <= threshold => self.word_to_rejection_prob[w] = ProbZero
            /\ \A v \in VocabSet :
                 (v \in DOMAIN self.word_to_rejection_prob
                    /\ threshold < Frequency(w) /\ Frequency(w) < Frequency(v))
                 => ProbLess(self.word_to_rejection_prob[w], self.word_to_rejection_prob[v])

\* Two words above the threshold with different frequencies, and the
\* sentinel below it.
C10_Witness ==
    /\ JustComputed
    /\ {"a", "b"} \subseteq VocabSet
    /\ threshold < Frequency("a")
    /\ Frequency("a") < Frequency("b")
    /\ ProbLess(ProbZero, self.word_to_rejection_prob["a"])
    /\ self.word_to_rejection_prob["UNK"] = ProbZero

\* The error the asserts raise, which is the one error kind the spec
\* calls InvalidInputError.
InvalidInputError == "AssertionError"

\* The inputs C11 lists: an empty outer sequence, an input that is not a
\* sequence, a first inner document that is not a sequence.
NotListOfLists(data) ==
    \/ data.type # "list"
    \/ data.items = << >>
    \/ data.items[1].type # "list"

\* A table with the text column omitted or not among its columns.
TextColMissing(data, text_col) ==
    data.type = "DataFrame" /\ (text_col = "" \/ text_col \notin data.columns)

\* C11: Construct and Ingest fail with the one error kind InvalidInputError
\* when the outer sequence is empty, when the input is not a sequence, when
\* the first inner document is not a sequence, and when a table is passed
\* with the text column omitted or not a column of the table.
C11_InvalidInputOneErrorKind ==
    [][ /\ \A corpus \in Arguments :
             (NotListOfLists(corpus) /\ ConstructAny(corpus))
                 => result'.status = InvalidInputError
        /\ \A data \in Arguments, text_col \in TextCols :
             (/\ \/ TextColMissing(data, text_col)
                 \/ NotListOfLists(AsList(data))
              /\ IngestAny(data, text_col))
                 => result'.status = InvalidInputError ]_vars

\* Right after the first ingestion (the one of the constructor) the
\* sentinel holds the largest index.
C12_UnkLastAfterFirstIngestion ==
    result.op = "__init__" =>
        /\ "UNK" \in DOMAIN self.word_to_idx
        /\ self.word_to_idx["UNK"] = self.vocab_size - 1

\* No later call inserts the sentinel again, and a word that has an index
\* keeps it.
C12_IndicesNeverChange ==
    Constructed =>
        /\ CountIn(self.vocab', "UNK") = 1
        /\ \A w \in DOMAIN self.word_to_idx :
             /\ w \in DOMAIN self.word_to_idx'
             /\ self.word_to_idx'[w] = self.word_to_idx[w]

\* The stable part of C12 alone.
C12_IndicesStable == [][C12_IndicesNeverChange]_vars

NoTwoDistinctTokens ==
    \A d \in 1..Len(self.corpus) :
        \A i, j \in 1..Len(self.corpus[d]) : self.corpus[d][i] = self.corpus[d][j]

\* Every token of the corpus has its rejection probability: the lookup of
\* line 168 cannot fail.
TableCoversTokens == TokenSet \subseteq DOMAIN self.word_to_rejection_prob

\* C13 as it is worded: on a corpus where no document contains two distinct
\* tokens, get_random_context never returns a pair and never signals an
\* error.
C13_NoPairNoError ==
    (NoTwoDistinctTokens /\ result.op = "get_random_context")
        => result.status = "pending"

\* C13, on an object whose table covers the tokens: on a corpus where no
\* document contains two distinct tokens, get_random_context never returns
\* a pair and never signals an error, the loop of line 161 and the restart
\* of line 181 going on without a cap.
C13_NoPairNoErrorWithoutTwoTokens ==
    (NoTwoDistinctTokens /\ TableCoversTokens /\ result.op = "get_random_context")
        => result.status = "pending"

\* The half of C13 that holds: no pair is returned on such a corpus.
C13_NoPairWithoutTwoTokens ==
    (NoTwoDistinctTokens /\ result.op = "get_random_context")
        => result.status # "returned"

\* A list whose first element is a list of words and which holds, further
\* on, an element that is not a list.
LaterElementNotList(data) ==
    /\ data.type = "list"
    /\ data.items # << >>
    /\ data.items[1].type = "list"
    /\ \E i \in 2..Len(data.items) : data.items[i].type # "list"

\* C14: add_data rejects with InvalidInputError a batch whose first element
\* is a token list but some later element is not (a bare string or a
\* number), and such an element is never ingested: the object stays as it
\* was.
C14_LaterElementRejected ==
    [][ \A data \in Arguments, text_col \in TextCols :
            (LaterElementNotList(data) /\ IngestAny(data, text_col))
                => (result'.status = InvalidInputError /\ self' = self) ]_vars

\* The string of such a batch is in the corpus and its characters are in
\* the vocabulary after a call that returned.
C14_StringNeverIngested ==
    ~ /\ result.op = "add_data"
      /\ result.status = "returned"
      /\ InList(<<"b", "d">>, self.corpus)
      /\ InList("d", self.vocab)

\* C15: in every state reached by the constructor followed by any number
\* of add_data calls, with no recomputation, every token of every document
\* has an entry in word_to_rejection_prob, so that the lookup of
\* get_random_context never fails.
C15_EveryTokenHasRejectionProb ==
    Constructed => (TableCoversTokens /\ result.status # "KeyError")

\* A call of get_random_context is running on an object whose table has an
\* entry for every token, with a window of at least 1, and some document
\* holds two distinct tokens.
C16_PairPossible ==
    /\ call.pc = "sampling"
    /\ call.window >= 1
    /\ TableCoversTokens
    /\ ~NoTwoDistinctTokens

\* C16 as a liveness property: if word_to_rejection_prob has an entry for every token of the
\* documents, the window is at least 1 and at least one document contains
\* two distinct tokens, then under fair random draws get_random_context
\* eventually returns a pair.
C16_EventuallyReturnsPair ==
    C16_PairPossible ~> (result.op = "get_random_context" /\ result.status = "returned")

\* What C16 rests on: under its conditions every pass can return a pair, a
\* rejection probability being below 1.
C16_ReturnAlwaysPossible == C16_PairPossible => ENABLED SampleReturn

\* C16, the part of it a finite run decides: a call made under these
\* conditions (an entry for every token, a window of at least 1, a
\* document of two distinct tokens) that is to return a pair eventually
\* does not end otherwise than by returning one.
C16_EndsByReturning ==
    [][(C16_PairPossible /\ call'.pc = "idle") => result'.status = "returned"]_vars

\* C17: whenever a call of add_data fails with any error, corpus, vocab,
\* vocab_size, word_to_idx, idx_to_word, word_to_freq, corpus_size and
\* word_to_rejection_prob are exactly as they were before the call.
C17_FailedIngestChangesNothing ==
    [][ \A data \in Arguments, text_col \in TextCols :
            (IngestAny(data, text_col) /\ result'.status # "returned")
                => self' = self ]_vars

\* The part of C17 that holds: a call that fails at one of the checks of
\* lines 102-109 leaves the object as it was.
C17_RejectedIngestChangesNothing ==
    [][ \A data \in Arguments, text_col \in TextCols :
            (IngestAny(data, text_col) /\ result'.status \in {"AssertionError", "IndexError"})
                => self' = self ]_vars

\* The list B the caller gave to the constructor. Line 112 binds
\* self._corpus to that very object (no copy is made), so what the caller
\* finds in B is what the corpus list holds.
CallersBatch == self.corpus

\* C18: add_data never modifies a batch supplied by the caller: after
\* ArticleCorpus(B) and then add_data(C), B still has its original length
\* and contents.
C18_CallersBatchUntouched ==
    [][(Constructed /\ result'.op = "add_data") => CallersBatch' = CallersBatch]_vars

\* The generator has just computed sampling_probs: its first production is
\* the most recent call.
JustProduced == result.op = "next" /\ gen.st = "yielded"

\* C19: the weight vector of the negative sampler has exactly vocab_size
\* positions; the weight at position i is derived from the frequency of
\* the word whose index is i, the iteration order of word_to_freq being the
\* index order; and the weights are normalised over the whole vocabulary,
\* UNK included: the terms of normalizing_factor are the weights'
\* frequencies, one for each word.
C19_WeightVectorFollowsIndex ==
    JustProduced =>
        /\ Len(gen.sampling_probs) = self.vocab_size
        /\ \A i \in 0..(self.vocab_size - 1) :
             /\ self.word_to_freq[i + 1][1] = self.idx_to_word[i]
             /\ gen.sampling_probs[i + 1] = FreqGet(self.word_to_freq, self.idx_to_word[i])
             /\ gen.sampling_probs[i + 1] >= 1
        /\ NormalizingTerms(self) = gen.sampling_probs
        /\ "UNK" \in { self.idx_to_word[i] : i \in 0..(self.vocab_size - 1) }

\* A first production over four words of different frequencies, the
\* sentinel at index 1.
C19_Witness ==
    /\ JustProduced
    /\ self.vocab = <<"a", "UNK", "b", "c">>
    /\ gen.sampling_probs = <<8, 1, 1, 1>>

Produced == gen.st \in {"yielded", "yielded_again"}

\* Nothing is computed by the call that creates the generator.
C20_NothingFixedAtCreation == gen.st = "created" => gen.sampling_probs = << >>

\* The first production computes the distribution from the object as it is
\* then; from there on the generator keeps it, whatever is ingested; and
\* every index it yields is a position of that distribution with a weight
\* above zero.
C20_FixedAtFirstProduction ==
    /\ (gen.st = "created" /\ gen'.st = "yielded")
           => gen'.sampling_probs = SamplingProbs(self)
    /\ (Produced /\ gen'.st # "created")
           => gen'.sampling_probs = gen.sampling_probs
    /\ result'.op = "next"
           => \A i \in 1..Len(result'.negatives) :
                /\ result'.negatives[i] < Len(gen'.sampling_probs)
                /\ gen'.sampling_probs[result'.negatives[i] + 1] > 0

\* C20: a generator of negative samples fixes its distribution at its first
\* production, not at the call that creates it, and reuses it for every
\* later production: an add_data after the first production does not
\* affect it, and it never yields an index at or above the vocab_size of
\* its first production, while an add_data between creation and first
\* production is reflected.
C20_DistributionFixedAtFirstNext ==
    []C20_NothingFixedAtCreation /\ [][C20_FixedAtFirstProduction]_vars

\* A later production after the vocabulary grew from two words to four,
\* still over the two positions of the first production.
C20_Witness ==
    /\ result.op = "next"
    /\ gen.st = "yielded_again"
    /\ gen.sampling_probs = <<6, 1>>
    /\ self.vocab = <<"a", "UNK", "b", "c">>
    /\ result.negatives = <<0, 1>>

\* An add_data between the creation of a generator and its first
\* production.
C20_IngestBeforeFirstNext == result.op = "add_data" /\ gen.st = "created"

=============================================================================
